---- MODULE Spec2Model ----
(***************************************************************************)
(* Multi-engine OCR escalation core of superafat/Ai-CPrice:               *)
(* OCREngineManager (backend/app/services/ocr/engine_manager.py), its      *)
(* configuration (backend/app/config.py), the result model                 *)
(* (backend/app/models/ocr_result.py) and the quota reset endpoint         *)
(* (backend/app/api/management.py).                                        *)
(*                                                                         *)
(* Confidences are integers in hundredths (0.8 is 80).  Texts are          *)
(* sequences of one-character strings.  A block resolution is a coroutine: *)
(* it runs atomically from one suspension point (an awaited adapter call)  *)
(* to the next, so one action is "everything up to the next adapter call". *)
(***************************************************************************)
EXTENDS Integers, Sequences, FiniteSets, TLC

\* ------------------------------------------------------------------ bounds
\* Number of block resolutions that may run concurrently (SpecConc).
NumProcs == 2
\* Number of block resolutions started in one behaviour.
MaxResolutions == 2
\* Longest text handed to the LaTeX validation endpoint (SpecLatex).
MaxLatexLen == 3
\* Number of validation requests made on that text (SpecLatex).
MaxValidations == 2
\* The configured daily limit of the emergency engine.
DailyLimit == 1

\* --------------------------------------------------------------- constants
\* settings.text_confidence_threshold = 0.8
text_confidence_threshold == 80
\* settings.formula_confidence_threshold = 0.7
formula_confidence_threshold == 70
\* settings.mathpix_daily_limit is an environment-overridable setting
\* (default 100); the model runs it at a small value so that the limit is
\* reached.
mathpix_daily_limit == DailyLimit

Procs == 1 .. NumProcs

\* Python's None, for the optional text / error of an attempt and for the
\* optional emergency engine.  Texts are sequences of one-character strings,
\* so this value is no text.
None == <<"None">>

\* Python's None as an engine name (OCR_ENGINE_CONFIG["formula"]["emergency"]
\* when mathpix is disabled; the text configuration has no emergency key).
NoEngine == "None"

QualityLevels == {"A", "B", "C"}
BlockTypes == {"text", "formula"}

\* ----------------------------------------------------------- configuration
\* The settings flags the engine configuration and the registry depend on.
\* mathpix_app_id is TRUE when an app id is configured (default: None).
AllOn ==
    [paddleocr_enabled |-> TRUE, tesseract_enabled |-> TRUE,
     doctr_enabled |-> TRUE, pix2tex_enabled |-> TRUE,
     trocr_enabled |-> TRUE, mathpix_enabled |-> TRUE,
     mathpix_app_id |-> TRUE]

SettingsChoices ==
    { AllOn,
      [AllOn EXCEPT !.mathpix_app_id = FALSE],
      [AllOn EXCEPT !.tesseract_enabled = FALSE, !.trocr_enabled = FALSE],
      [AllOn EXCEPT !.paddleocr_enabled = FALSE, !.pix2tex_enabled = FALSE,
                    !.mathpix_enabled = FALSE],
      [AllOn EXCEPT !.paddleocr_enabled = FALSE, !.tesseract_enabled = FALSE,
                    !.doctr_enabled = FALSE] }

\* Every combination of the flags.
AllSettings ==
    [paddleocr_enabled : BOOLEAN, tesseract_enabled : BOOLEAN,
     doctr_enabled : BOOLEAN, pix2tex_enabled : BOOLEAN,
     trocr_enabled : BOOLEAN, mathpix_enabled : BOOLEAN,
     mathpix_app_id : BOOLEAN]

\* Mutant: the fallback lists do not depend on which engine is primary.
OCR_ENGINE_CONFIG_FixedFallbacks(s) ==
    [text |->
        [primary  |-> IF s.paddleocr_enabled THEN "paddleocr" ELSE "tesseract",
         fallback |-> <<"tesseract", "doctr">>,
         emergency |-> NoEngine],
     formula |->
        [primary  |-> IF s.pix2tex_enabled THEN "pix2tex" ELSE "trocr",
         fallback |-> <<"trocr">>,
         emergency |-> IF s.mathpix_enabled THEN "mathpix" ELSE NoEngine]]

\* OCR_ENGINE_CONFIG of config.py, as a function of the settings.
OCR_ENGINE_CONFIG(s) ==
    [text |->
        [primary  |-> IF s.paddleocr_enabled THEN "paddleocr" ELSE "tesseract",
         fallback |-> IF s.paddleocr_enabled THEN <<"tesseract", "doctr">>
                                             ELSE <<"doctr">>,
         emergency |-> NoEngine],
     formula |->
        [primary  |-> IF s.pix2tex_enabled THEN "pix2tex" ELSE "trocr",
         fallback |-> IF s.pix2tex_enabled THEN <<"trocr">> ELSE << >>,
         emergency |-> IF s.mathpix_enabled THEN "mathpix" ELSE NoEngine]]

\* The name -> adapter mapping OCREngineManager.initialize builds.
RegisteredBy(s) ==
    (IF s.paddleocr_enabled THEN {"paddleocr"} ELSE {})
    \cup (IF s.tesseract_enabled THEN {"tesseract"} ELSE {})
    \cup (IF s.doctr_enabled THEN {"doctr"} ELSE {})
    \cup (IF s.pix2tex_enabled THEN {"pix2tex"} ELSE {})
    \cup (IF s.trocr_enabled THEN {"trocr"} ELSE {})
    \cup (IF s.mathpix_enabled /\ s.mathpix_app_id THEN {"mathpix"} ELSE {})

\* The order in which initialize constructs, registers and initializes the
\* adapters.
InitOrder == <<"paddleocr", "tesseract", "doctr", "pix2tex", "trocr", "mathpix">>

\* The condition under which initialize handles an engine.
Enabled(s, e) == e \in RegisteredBy(s)

\* The adapters whose initialize() re-raises what it caught (MathpixEngine
\* swallows every exception).
RaisingInitializers == {"paddleocr", "tesseract", "doctr", "pix2tex", "trocr"}

\* The mapping when the initialize() of adapter `fail` raised: the adapter
\* is stored in self.engines before its initialize() is awaited, and the
\* exception leaves OCREngineManager.initialize at once.
RegisteredUpTo(s, fail) ==
    {InitOrder[i] : i \in {j \in 1 .. Len(InitOrder) :
                              /\ Enabled(s, InitOrder[j])
                              /\ \E k \in j .. Len(InitOrder) : InitOrder[k] = fail}}

\* ------------------------------------------------------------------ texts
Count(t, c) == Cardinality({i \in 1 .. Len(t) : t[i] = c})

\* Characters str.strip() removes.
Whitespace == {" ", "\t"}

\* latex_text.strip() is empty
IsBlank(t) == \A i \in 1 .. Len(t) : t[i] \in Whitespace

forbidden_chars == {"<", ">", "&", "%", "#"}

\* Mutant: the braces must nest, not only balance in number.
ValidateLatexNested(t) ==
    /\ ~IsBlank(t)
    /\ Count(t, "{") = Count(t, "}")
    /\ \A n \in 1 .. Len(t) :
          Count(SubSeq(t, 1, n), "{") >= Count(SubSeq(t, 1, n), "}")
    /\ \A i \in 1 .. Len(t) : t[i] \notin forbidden_chars

\* OCREngineManager._validate_latex
validate_latex(t) ==
    /\ ~IsBlank(t)
    /\ Count(t, "{") = Count(t, "}")
    /\ \A i \in 1 .. Len(t) : t[i] \notin forbidden_chars

\* Python truthiness of attempt.result: None and "" are falsy.
Truthy(t) == t # None /\ t # << >>

\* ------------------------------------------------------- adapter outcomes
\* What one awaited adapter call (engine.recognize_text / recognize_formula)
\* can do: return a dict with a text and a confidence, or raise.
Raise == [kind |-> "raise", text |-> None, confidence |-> 0]

Return(t, c) == [kind |-> "return", text |-> t, confidence |-> c]

TextOutcomes ==
    {Raise, Return(<< >>, 0)}
    \cup {Return(<<"x">>, c) : c \in {30, 50, 70, 80, 95}}

FormulaOutcomes ==
    {Raise, Return(<< >>, 10)}
    \cup {Return(<<"{", "x", "}">>, c) : c \in {30, 40, 50, 70, 90}}
    \cup {Return(<<"{", "x">>, c) : c \in {50, 90}}

\* The outcomes no tier but the emergency tier accepts: the cascade is
\* walked to its end (SpecConfig).
RejectedOutcomes == {Raise, Return(<<"{", "x", "}">>, 50)}

\* The reduced outcomes of the concurrent specification.
ConcOutcomes ==
    {Raise, Return(<<"{", "x", "}">>, 50), Return(<<"{", "x", "}">>, 90),
     Return(<<"{", "x">>, 90)}

Outcomes(bt) == IF bt = "text" THEN TextOutcomes ELSE FormulaOutcomes

\* ------------------------------------------------------------------ state
VARIABLES
    settings,         \* the settings flags (fixed at construction)
    engines,          \* OCREngineManager.engines: the registered engine names
    usage_stats,      \* OCREngineManager.usage_stats
    proc,             \* per block resolution: its coroutine frame
    started,          \* history: number of resolutions started
    emergency_calls,  \* history: adapter calls made to the emergency engine
    reset_done,       \* history: whether the daily quota was ever reset
    init_state,       \* OCREngineManager.initialize: "new", "ready" (it
                      \* returned) or "raised" (it raised)
    uninitialized,    \* registered adapters whose is_initialized is False
    validation,       \* POST /validate/latex: the text and the answers given
    lifespan_manager  \* the OCREngineManager local to main.lifespan: whether
                      \* startup is "down", "up" or "failed", and its engines

vars == <<settings, engines, usage_stats, proc, started, emergency_calls,
          reset_done, init_state, uninitialized, validation, lifespan_manager>>

\* The frame of a resolution that is not running.
IdleFrame ==
    [pc |-> "idle", tier |-> "NONE", fb |-> 0, block_type |-> "text",
     quality_level |-> "B", attempts |-> << >>, tiers |-> << >>,
     pending |-> None, result |-> None, returned_at |-> "NONE", calls |-> 0]

\* OCRAttempt(engine, attempt_number, image_quality, start_time): the
\* dataclass defaults.  end_time is TRUE once the end timestamp is set.
OCRAttempt(engine, attempt_number, image_quality) ==
    [engine |-> engine, attempt_number |-> attempt_number,
     image_quality |-> image_quality, end_time |-> FALSE, confidence |-> 0,
     result |-> None, is_compilable |-> FALSE, error |-> None]

\* Mutant: the except branch records the error and leaves the attempt open.
SealOpenOnError(a, o) ==
    IF o.kind = "return"
    THEN [a EXCEPT !.end_time = TRUE, !.result = o.text,
                   !.confidence = o.confidence]
    ELSE [a EXCEPT !.error = <<"adapter error">>]

\* The try branch of _attempt_ocr after the adapter returned, and the
\* except branch after it raised.
Seal(a, o) ==
    IF o.kind = "return"
    THEN [a EXCEPT !.end_time = TRUE, !.result = o.text,
                   !.confidence = o.confidence]
    ELSE [a EXCEPT !.end_time = TRUE, !.error = <<"adapter error">>]

\* _attempt_ocr on a name that is not in self.engines: the ValueError is
\* raised and caught inside _attempt_ocr, before any await.
Unavailable(a) ==
    [a EXCEPT !.end_time = TRUE, !.error = <<"engine unavailable">>]

\* OCRResult(...): the fields the manager passes; confidence_level keeps its
\* declared default.
OCRResult(text, confidence, engine_used, attempts, is_successful, is_compilable) ==
    [text |-> text, confidence |-> confidence, confidence_level |-> "low",
     engine_used |-> engine_used, attempts |-> attempts,
     is_successful |-> is_successful, is_compilable |-> is_compilable]

\* ------------------------------------------------------------ the cascade
\* A frame g is proc[p] extended with the shared state the coroutine
\* updates while it runs: g.stats (usage_stats) and g.ecalls
\* (emergency_calls).
Config(g) == OCR_ENGINE_CONFIG(settings)[g.block_type]

\* Mutant: the threshold itself is rejected.
TextAcceptsStrict(a) == a.confidence > text_confidence_threshold

\* result.confidence >= settings.text_confidence_threshold
TextAccepts(a) == a.confidence >= text_confidence_threshold

\* result.result and await self._validate_latex(result.result)
Compilable(a) == Truthy(a.result) /\ validate_latex(a.result)

\* Mutant: the first three tiers accept on confidence alone.
FormulaAcceptsConfidenceOnly(tier, a) ==
    IF tier = "EMERGENCY"
    THEN Truthy(a.result) /\ validate_latex(a.result)
    ELSE a.confidence >= formula_confidence_threshold

\* Mutant: the emergency tier applies the confidence threshold too.
FormulaAcceptsThresholdEverywhere(tier, a) ==
    /\ Truthy(a.result) /\ validate_latex(a.result)
    /\ a.confidence >= formula_confidence_threshold

\* The acceptance test of the formula cascade: the confidence test is
\* nested in the compilability test, and the emergency tier has none.
FormulaAccepts(tier, a) ==
    /\ Compilable(a)
    /\ \/ tier = "EMERGENCY"
       \/ a.confidence >= formula_confidence_threshold

Accepts(bt, tier, a) ==
    IF bt = "text" THEN TextAccepts(a) ELSE FormulaAccepts(tier, a)

\* Mutant: the fallback return names the primary engine.
TierEnginePrimaryOnly(g) ==
    IF g.tier = "EMERGENCY" THEN Config(g).emergency ELSE Config(g).primary

\* The engine variable the return statement of a tier names
\* (primary_engine, fallback_engine, emergency_engine).
TierEngine(g) ==
    CASE g.tier = "PRIMARY" -> Config(g).primary
      [] g.tier = "FALLBACKS" -> Config(g).fallback[g.fb]
      [] g.tier = "QUALITY_RETRY" -> Config(g).primary
      [] g.tier = "EMERGENCY" -> Config(g).emergency

\* Where the cascade continues after a rejected attempt of a tier.
NextPc(bt, tier) ==
    CASE tier = "PRIMARY" -> "fallback"
      [] tier = "FALLBACKS" -> "fallback"
      [] tier = "QUALITY_RETRY" -> IF bt = "text" THEN "best" ELSE "emergency"
      [] tier = "EMERGENCY" -> "best"

\* Mutant: the daily usage is clamped to the limit.
CountEmergencyClamped(stats, tier) ==
    IF tier = "EMERGENCY"
    THEN [stats EXCEPT
            !.mathpix_daily_usage =
                IF @ < mathpix_daily_limit THEN @ + 1 ELSE mathpix_daily_limit,
            !.emergency_usage = @ + 1]
    ELSE stats

\* Mutant: the emergency tier counts its use but not the daily quota.
CountEmergencyNoQuota(stats, tier) ==
    IF tier = "EMERGENCY"
    THEN [stats EXCEPT !.emergency_usage = @ + 1]
    ELSE stats

\* usage_stats after the attempt of a tier was appended: the emergency tier
\* counts its use before it looks at the result.
CountEmergency(stats, tier) ==
    IF tier = "EMERGENCY"
    THEN [stats EXCEPT !.mathpix_daily_usage = @ + 1, !.emergency_usage = @ + 1]
    ELSE stats

\* Mutant: every acceptance after the primary tier counts as fallback use.
CountAcceptAfterPrimary(stats, tier) ==
    IF tier # "PRIMARY" THEN [stats EXCEPT !.fallback_usage = @ + 1] ELSE stats

\* usage_stats when a tier returns an accepted attempt.
CountAccept(stats, tier) ==
    IF tier = "FALLBACKS" THEN [stats EXCEPT !.fallback_usage = @ + 1] ELSE stats

\* Mutant: the flag is set inside the confidence test.
FlaggedWhenConfident(bt, a) ==
    IF /\ bt = "formula" /\ Compilable(a)
       /\ a.confidence >= formula_confidence_threshold
    THEN [a EXCEPT !.is_compilable = TRUE]
    ELSE a

\* The attempt as the formula cascade leaves it in the list: the flag is set
\* when the text is compilable, whatever the confidence.
Flagged(bt, a) ==
    IF bt = "formula" /\ Compilable(a) THEN [a EXCEPT !.is_compilable = TRUE] ELSE a

\* The code that follows `result = await self._attempt_ocr(...)` in a tier:
\* append, (formula) flag, (emergency) count, accept and return, or go on.
AfterAttempt(g, sealed) ==
    LET a == Flagged(g.block_type, sealed)
        g1 == [g EXCEPT !.attempts = Append(@, a), !.tiers = Append(@, g.tier),
                        !.pending = None,
                        !.stats = CountEmergency(@, g.tier)]
    IN  IF Accepts(g.block_type, g.tier, a)
        THEN [g1 EXCEPT !.pc = "done", !.returned_at = g.tier,
                        !.stats = CountAccept(@, g.tier),
                        !.result = OCRResult(a.result, a.confidence, TierEngine(g),
                                             g1.attempts, TRUE,
                                             g.block_type = "formula")]
        ELSE [g1 EXCEPT !.pc = NextPc(g.block_type, g.tier),
                        !.fb = IF g.tier \in {"PRIMARY", "FALLBACKS"} THEN @ + 1 ELSE @]

\* Mutant: the ValueError of an unregistered engine is raised outside the
\* try block and reaches the caller.
CallAttemptRaises(g, tier, engine, quality, number) ==
    IF engine \notin engines
    THEN [g EXCEPT !.pc = "raised", !.tier = tier]
    ELSE [g EXCEPT !.pc = "await", !.tier = tier,
                   !.pending = OCRAttempt(engine, number, quality),
                   !.calls = @ + 1,
                   !.ecalls = IF tier = "EMERGENCY" THEN @ + 1 ELSE @]

\* _attempt_ocr up to its await: an engine that is not registered gives a
\* sealed error attempt at once; otherwise the coroutine is suspended in the
\* adapter call.
CallAttempt(g, tier, engine, quality, number) ==
    LET a == OCRAttempt(engine, number, quality)
        g1 == [g EXCEPT !.tier = tier]
    IN  IF engine \notin engines
        THEN AfterAttempt(g1, Unavailable(a))
        ELSE [g1 EXCEPT !.pc = "await", !.pending = a, !.calls = @ + 1,
                        !.ecalls = IF tier = "EMERGENCY" THEN @ + 1 ELSE @]

PrimaryStep(g) ==
    CallAttempt(g, "PRIMARY", Config(g).primary, g.quality_level, 1)

\* Mutant: a configured fallback is attempted whether registered or not.
FallbackStepNoRegistryTest(g) ==
    IF g.fb > Len(Config(g).fallback)
    THEN [g EXCEPT !.pc = "retry"]
    ELSE CallAttempt(g, "FALLBACKS", Config(g).fallback[g.fb],
                     g.quality_level, Len(g.attempts) + 1)

\* One iteration of `for fallback_engine in ...["fallback"]`.
FallbackStep(g) ==
    IF g.fb > Len(Config(g).fallback)
    THEN [g EXCEPT !.pc = "retry"]
    ELSE IF Config(g).fallback[g.fb] \in engines
         THEN CallAttempt(g, "FALLBACKS", Config(g).fallback[g.fb],
                          g.quality_level, Len(g.attempts) + 1)
         ELSE [g EXCEPT !.fb = @ + 1]

\* Mutant: the retry is made whatever the requested quality level.
RetryStepAlways(g) ==
    CallAttempt(g, "QUALITY_RETRY", Config(g).primary, "A", Len(g.attempts) + 1)

\* Mutant: the retry is numbered like the primary attempt.
RetryStepNumberedOne(g) ==
    IF g.quality_level # "A"
    THEN CallAttempt(g, "QUALITY_RETRY", Config(g).primary, "A", 1)
    ELSE [g EXCEPT !.pc = IF g.block_type = "text" THEN "best" ELSE "emergency"]

\* Mutant: the retry walks the whole cascade again on the original image.
RetryStepRewalk(g) ==
    IF g.quality_level # "A"
    THEN [g EXCEPT !.pc = "primary", !.quality_level = "A", !.fb = 0]
    ELSE [g EXCEPT !.pc = IF g.block_type = "text" THEN "best" ELSE "emergency"]

\* if quality_level != "A": retry the primary engine on the original image
RetryStep(g) ==
    IF g.quality_level # "A"
    THEN CallAttempt(g, "QUALITY_RETRY", Config(g).primary, "A", Len(g.attempts) + 1)
    ELSE [g EXCEPT !.pc = NextPc(g.block_type, "QUALITY_RETRY")]

\* Mutant: the guard does not look at the quota.
EmergencyAllowedNoQuota(g) ==
    /\ Config(g).emergency # NoEngine
    /\ Config(g).emergency \in engines

\* Mutant: the quota test lets one more use through.
EmergencyAllowedOffByOne(g) ==
    /\ Config(g).emergency # NoEngine
    /\ Config(g).emergency \in engines
    /\ g.stats.mathpix_daily_usage <= mathpix_daily_limit

\* The guard of the emergency tier.
EmergencyAllowed(g) ==
    /\ Config(g).emergency # NoEngine
    /\ Config(g).emergency \in engines
    /\ g.stats.mathpix_daily_usage < mathpix_daily_limit

\* Mutant: the emergency engine gets the image of the requested level.
EmergencyStepRequestedQuality(g) ==
    IF EmergencyAllowed(g)
    THEN CallAttempt(g, "EMERGENCY", Config(g).emergency, g.quality_level,
                     Len(g.attempts) + 1)
    ELSE [g EXCEPT !.pc = "best"]

\* Mutant: with the quota used up the resolution waits for a reset.
EmergencyStepWaitsForQuota(g) ==
    IF EmergencyAllowed(g)
    THEN CallAttempt(g, "EMERGENCY", Config(g).emergency, "A", Len(g.attempts) + 1)
    ELSE IF Config(g).emergency \in engines
         THEN [g EXCEPT !.pc = "wait"]
         ELSE [g EXCEPT !.pc = "best"]

\* The fourth tier: one call of the emergency engine when the guard allows.
EmergencyStep(g) ==
    IF EmergencyAllowed(g)
    THEN CallAttempt(g, "EMERGENCY", Config(g).emergency, "A", Len(g.attempts) + 1)
    ELSE [g EXCEPT !.pc = "best"]

\* Mutant: the last maximal element.
MaxByConfidenceLast(atts) ==
    atts[CHOOSE i \in 1 .. Len(atts) :
            /\ \A j \in 1 .. Len(atts) : atts[j].confidence <= atts[i].confidence
            /\ \A j \in (i + 1) .. Len(atts) : atts[j].confidence < atts[i].confidence]

\* Mutant: the most recent attempt is taken as the best one.
LastAttempt(atts) == atts[Len(atts)]

\* max(attempts, key=lambda x: x.confidence): the first maximal element.
MaxByConfidence(atts) ==
    atts[CHOOSE i \in 1 .. Len(atts) :
            /\ \A j \in 1 .. Len(atts) : atts[j].confidence <= atts[i].confidence
            /\ \A j \in 1 .. (i - 1) : atts[j].confidence < atts[i].confidence]

IsFlagged(a) == a.is_compilable

\* Mutant: the compilable attempts are not preferred.
BestAttemptOverall(bt, atts) == MaxByConfidence(atts)

\* best_attempt of the best-effort return of each cascade
BestAttempt(bt, atts) ==
    IF bt = "formula" /\ SelectSeq(atts, IsFlagged) # << >>
    THEN MaxByConfidence(SelectSeq(atts, IsFlagged))
    ELSE MaxByConfidence(atts)

\* best_attempt.result or ""
OrEmpty(t) == IF Truthy(t) THEN t ELSE << >>

\* Mutant: the best-effort formula result is successful on confidence.
BestEffortByConfidence(g) ==
    LET best == BestAttempt(g.block_type, g.attempts)
    IN  [g EXCEPT !.pc = "done", !.returned_at = "BEST_EFFORT",
                  !.result =
                      OCRResult(OrEmpty(best.result), best.confidence,
                                best.engine, g.attempts,
                                /\ g.block_type = "formula"
                                /\ best.confidence >= formula_confidence_threshold,
                                best.is_compilable)]

\* Mutant: a text best effort with some confidence is successful.
BestEffortNonZero(g) ==
    LET best == BestAttempt(g.block_type, g.attempts)
    IN  [g EXCEPT !.pc = "done", !.returned_at = "BEST_EFFORT",
                  !.result =
                      IF g.block_type = "text"
                      THEN OCRResult(OrEmpty(best.result), best.confidence,
                                     best.engine, g.attempts,
                                     best.confidence > 0, FALSE)
                      ELSE OCRResult(OrEmpty(best.result), best.confidence,
                                     best.engine, g.attempts,
                                     best.is_compilable, best.is_compilable)]

BestEffort(g) ==
    LET best == BestAttempt(g.block_type, g.attempts)
    IN  [g EXCEPT !.pc = "done", !.returned_at = "BEST_EFFORT",
                  !.result =
                      IF g.block_type = "text"
                      THEN OCRResult(OrEmpty(best.result), best.confidence,
                                     best.engine, g.attempts, FALSE, FALSE)
                      ELSE OCRResult(OrEmpty(best.result), best.confidence,
                                     best.engine, g.attempts,
                                     best.is_compilable, best.is_compilable)]

\* The coroutine from its current position to its next suspension point or
\* its return.
\* (The frame is bound as h so that it is a value, computed once, when the
\* next step is taken from it.)
RECURSIVE Run(_)
Run(g) ==
    CHOOSE r \in
        {CASE h.pc = "primary" -> Run(PrimaryStep(h))
           [] h.pc = "fallback" -> Run(FallbackStep(h))
           [] h.pc = "retry" -> Run(RetryStep(h))
           [] h.pc = "emergency" -> Run(EmergencyStep(h))
           [] h.pc = "best" -> BestEffort(h)
           [] OTHER -> h : h \in {g}} : TRUE

\* ---------------------------------------------------------------- actions
Frame(p) ==
    [pc |-> proc[p].pc, tier |-> proc[p].tier, fb |-> proc[p].fb,
     block_type |-> proc[p].block_type, quality_level |-> proc[p].quality_level,
     attempts |-> proc[p].attempts, tiers |-> proc[p].tiers,
     pending |-> proc[p].pending, result |-> proc[p].result,
     returned_at |-> proc[p].returned_at, calls |-> proc[p].calls,
     stats |-> usage_stats, ecalls |-> emergency_calls]

Local(g) ==
    [pc |-> g.pc, tier |-> g.tier, fb |-> g.fb, block_type |-> g.block_type,
     quality_level |-> g.quality_level, attempts |-> g.attempts,
     tiers |-> g.tiers, pending |-> g.pending, result |-> g.result,
     returned_at |-> g.returned_at, calls |-> g.calls]

Commit(p, g) ==
    \E h \in {g} :
        /\ proc' = [proc EXCEPT ![p] = Local(h)]
        /\ usage_stats' = h.stats
        /\ emergency_calls' = h.ecalls

\* OCREngineManager() as constructed.
InitManager ==
    /\ engines = {}
    /\ usage_stats = [total_requests |-> 0, successful_requests |-> 0,
                      fallback_usage |-> 0, emergency_usage |-> 0,
                      mathpix_daily_usage |-> 0]
    /\ proc = [p \in Procs |-> IdleFrame]
    /\ started = 0
    /\ emergency_calls = 0
    /\ reset_done = FALSE
    /\ init_state = "new"
    /\ uninitialized = {}

Init ==
    /\ settings \in SettingsChoices
    /\ InitManager
    /\ validation = [text |-> << >>, answers |-> << >>]
    /\ lifespan_manager = [state |-> "down", engines |-> {}]

\* OCREngineManager.initialize at startup, before any request is served.
\* `fail` is the adapter whose initialize() raises, NoEngine when none does.
initialize(fail) ==
    /\ started = 0
    /\ init_state = "new"
    /\ fail # NoEngine => fail \in RaisingInitializers /\ Enabled(settings, fail)
    /\ engines' = IF fail = NoEngine THEN RegisteredBy(settings)
                                     ELSE RegisteredUpTo(settings, fail)
    /\ uninitialized' = IF fail = NoEngine THEN {} ELSE {fail}
    /\ init_state' = IF fail = NoEngine THEN "ready" ELSE "raised"
    /\ UNCHANGED <<settings, usage_stats, proc, started, emergency_calls,
                   reset_done, validation, lifespan_manager>>

\* main.lifespan up to its yield: it constructs an OCREngineManager of its
\* own and initializes that one; the module-level ocr_manager the request
\* handlers import is not touched.  `fail` is as in initialize: the
\* exception leaves lifespan and the local manager is dropped with it.
lifespan(fail) ==
    /\ started = 0
    /\ lifespan_manager.state = "down"
    /\ fail # NoEngine => fail \in RaisingInitializers /\ Enabled(settings, fail)
    /\ lifespan_manager' =
          IF fail = NoEngine
          THEN [state |-> "up", engines |-> RegisteredBy(settings)]
          ELSE [state |-> "failed", engines |-> {}]
    /\ UNCHANGED <<settings, engines, usage_stats, proc, started,
                   emergency_calls, reset_done, init_state, uninitialized,
                   validation>>

\* process_text_block / process_formula_block from the call to the first
\* suspension point (or to the return, when no adapter is called).
process_block(p, bt, q) ==
    /\ proc[p].pc = "idle"
    /\ started < MaxResolutions
    /\ started' = started + 1
    /\ Commit(p, Run([Frame(p) EXCEPT !.pc = "primary", !.block_type = bt,
                                      !.quality_level = q]))
    /\ UNCHANGED <<settings, engines, reset_done, init_state, uninitialized,
                   validation, lifespan_manager>>

\* The awaited adapter call of p ends with outcome o; the coroutine resumes
\* and runs to its next suspension point or its return.
AdapterReturn(p, o) ==
    /\ proc[p].pc = "await"
    /\ proc[p].pending.engine \in uninitialized => o = Raise
    /\ Commit(p, Run(AfterAttempt(Frame(p), Seal(proc[p].pending, o))))
    /\ UNCHANGED <<settings, engines, started, reset_done, init_state,
                   uninitialized, validation, lifespan_manager>>

\* The caller takes the returned OCRResult; the coroutine is gone.
Collect(p) ==
    /\ proc[p].pc = "done"
    /\ proc' = [proc EXCEPT ![p] = IdleFrame]
    /\ UNCHANGED <<settings, engines, usage_stats, started, emergency_calls,
                   reset_done, init_state, uninitialized, validation, lifespan_manager>>

\* Mutant: the reset zeroes the emergency-usage counter instead.
reset_emergency_usage ==
    /\ usage_stats' = [usage_stats EXCEPT !.emergency_usage = 0]
    /\ reset_done' = TRUE
    /\ UNCHANGED <<settings, engines, proc, started, emergency_calls,
                   init_state, uninitialized, validation, lifespan_manager>>

\* POST /management/quota/reset
reset_daily_quota ==
    /\ usage_stats' = [usage_stats EXCEPT !.mathpix_daily_usage = 0]
    /\ reset_done' = TRUE
    /\ UNCHANGED <<settings, engines, proc, started, emergency_calls,
                   init_state, uninitialized, validation, lifespan_manager>>

\* Mutant: the validation is counted as a request.
validate_latex_counted ==
    /\ Len(validation.answers) < MaxValidations
    /\ validation' = [validation EXCEPT
                         !.answers = Append(@, validate_latex(validation.text))]
    /\ usage_stats' = [usage_stats EXCEPT !.total_requests = @ + 1]
    /\ UNCHANGED <<settings, engines, proc, started,
                   emergency_calls, reset_done, init_state, uninitialized, lifespan_manager>>

\* POST /validate/latex on the text of the request.
validate_latex_request ==
    /\ Len(validation.answers) < MaxValidations
    /\ validation' = [validation EXCEPT
                         !.answers = Append(@, validate_latex(validation.text))]
    /\ UNCHANGED <<settings, engines, usage_stats, proc, started,
                   emergency_calls, reset_done, init_state, uninitialized, lifespan_manager>>

\* OCREngineManager.get_stats; the rates are in whole percent, rounded down.
get_stats ==
    LET total == usage_stats.total_requests
        Rate(n) == IF total > 0 THEN (n * 100) \div total ELSE 0
    IN  [total_requests |-> total,
         success_rate |-> Rate(usage_stats.successful_requests),
         fallback_rate |-> Rate(usage_stats.fallback_usage),
         emergency_rate |-> Rate(usage_stats.emergency_usage),
         mathpix_daily_usage |-> usage_stats.mathpix_daily_usage,
         mathpix_remaining |->
             mathpix_daily_limit - usage_stats.mathpix_daily_usage]

\* Resolutions one at a time, every adapter outcome.
Next ==
    \/ \E fail \in RaisingInitializers \cup {NoEngine} : initialize(fail)
    \/ \E fail \in RaisingInitializers \cup {NoEngine} : lifespan(fail)
    \/ \E bt \in BlockTypes, q \in QualityLevels : process_block(1, bt, q)
    \/ \E o \in Outcomes(proc[1].block_type) : AdapterReturn(1, o)
    \/ Collect(1)
    \/ reset_daily_quota

Spec == Init /\ [][Next]_vars

\* Every combination of the flags, rejected attempts only.
InitConfig ==
    /\ settings \in AllSettings
    /\ InitManager
    /\ validation = [text |-> << >>, answers |-> << >>]
    /\ lifespan_manager = [state |-> "down", engines |-> {}]

NextConfig ==
    \/ initialize(NoEngine)
    \/ \E bt \in BlockTypes, q \in QualityLevels : process_block(1, bt, q)
    \/ \E o \in RejectedOutcomes : AdapterReturn(1, o)
    \/ Collect(1)

SpecConfig == InitConfig /\ [][NextConfig]_vars

\* Formula resolutions running concurrently, reduced adapter outcomes.
NextConc ==
    \/ initialize(NoEngine)
    \/ \E p \in Procs, q \in {"A", "B"} : process_block(p, "formula", q)
    \/ \E p \in Procs, o \in ConcOutcomes : AdapterReturn(p, o)
    \/ \E p \in Procs : Collect(p)
    \/ reset_daily_quota

SpecConc == Init /\ [][NextConc]_vars

\* The manager after a successful initialize, resolutions one at a time.
NextLive ==
    \/ initialize(NoEngine)
    \/ \E bt \in BlockTypes, q \in QualityLevels : process_block(1, bt, q)
    \/ \E o \in Outcomes(proc[1].block_type) : AdapterReturn(1, o)
    \/ Collect(1)
    \/ reset_daily_quota

\* Every awaited adapter call eventually returns or raises.
AdapterCallsEnd ==
    WF_vars(\E o \in Outcomes(proc[1].block_type) : AdapterReturn(1, o))

SpecLive == Init /\ [][NextLive]_vars /\ AdapterCallsEnd

\* The texts of the validation requests: every string of at most
\* MaxLatexLen characters over the characters _validate_latex looks at and
\* one it does not.
LatexAlphabet == {" ", "\t", "x", "{", "}", "<", ">", "&", "%", "#"}

LatexTexts ==
    UNION {[1 .. n -> LatexAlphabet] : n \in 0 .. MaxLatexLen}

InitLatex ==
    /\ settings = AllOn
    /\ InitManager
    /\ validation \in [text : LatexTexts, answers : {<< >>}]
    /\ lifespan_manager = [state |-> "down", engines |-> {}]

\* Validation requests on one text, around startup and quota resets.
NextLatex ==
    \/ validate_latex_request
    \/ \E fail \in RaisingInitializers \cup {NoEngine} : initialize(fail)
    \/ reset_daily_quota

SpecLatex == InitLatex /\ [][NextLatex]_vars

\* ================================================================== claims
\* The acceptance predicate of a tier as the specification words it: text
\* tiers accept on confidence; formula tiers on compilability and
\* confidence; the emergency tier on compilability alone.
IsCompilableText(t) ==
    /\ t # None
    /\ \E i \in 1 .. Len(t) : t[i] \notin {" ", "\t"}
    /\ Count(t, "{") = Count(t, "}")
    /\ \A i \in 1 .. Len(t) : t[i] \notin {"<", ">", "&", "%", "#"}

TierPredicate(bt, tier, a) ==
    IF bt = "text"
    THEN a.confidence >= text_confidence_threshold
    ELSE /\ IsCompilableText(a.result)
         /\ (tier # "EMERGENCY" => a.confidence >= formula_confidence_threshold)

Returned(p) == proc[p].pc = "done"

Last(seq) == seq[Len(seq)]

\* Attempts of p whose engine was registered, i.e. that called an adapter.
AdapterAttempts(p) ==
    {i \in 1 .. Len(proc[p].attempts) :
        proc[p].attempts[i].error # <<"engine unavailable">>}

\* C1: with daily limit L and more than L formula resolutions running
\* concurrently, at most L attempts reach the emergency engine and the daily
\* usage counter never exceeds L (as long as the quota is not reset).
C1_QuotaNeverExceeded ==
    ~reset_done =>
        /\ emergency_calls <= mathpix_daily_limit
        /\ usage_stats.mathpix_daily_usage <= mathpix_daily_limit

\* C2: an attempt that satisfies its tier's acceptance predicate is the last
\* attempt of a resolution that has returned at that tier with
\* is_successful = true, and no adapter call was started after it; a primary
\* text attempt at or above the threshold gives a result with exactly one
\* attempt.
C2_HaltsAtAcceptance ==
    \A p \in Procs :
        LET f == proc[p] IN
        /\ \A i \in 1 .. Len(f.attempts) :
              TierPredicate(f.block_type, f.tiers[i], f.attempts[i]) =>
                  /\ i = Len(f.attempts)
                  /\ f.pc = "done"
                  /\ f.returned_at = f.tiers[i]
                  /\ f.result.attempts = f.attempts
                  /\ f.result.is_successful
                  /\ f.calls = Cardinality(AdapterAttempts(p))
        /\ (/\ f.block_type = "text"
            /\ Len(f.attempts) >= 1
            /\ f.attempts[1].confidence >= text_confidence_threshold)
           => /\ f.pc = "done"
              /\ Len(f.result.attempts) = 1
              /\ f.result.is_successful

\* Scenario A: the primary text engine returns confidence 0.95.
C2_Witness ==
    \E p \in Procs :
        /\ Returned(p)
        /\ proc[p].block_type = "text"
        /\ proc[p].returned_at = "PRIMARY"
        /\ proc[p].attempts[1].confidence = 95
        /\ Len(proc[p].result.attempts) = 1

\* C3: every returned OCRResult has a non-empty attempts list that starts
\* with the primary-engine attempt numbered 1 and whose sequence numbers are
\* strictly increasing.
C3_AttemptsOrdered ==
    \A p \in Procs :
        Returned(p) =>
            LET atts == proc[p].result.attempts IN
            /\ Len(atts) >= 1
            /\ atts[1].engine = OCR_ENGINE_CONFIG(settings)[proc[p].block_type].primary
            /\ atts[1].attempt_number = 1
            /\ \A i, j \in 1 .. Len(atts) :
                  i < j => atts[i].attempt_number < atts[j].attempt_number

C3_Witness ==
    \E p \in Procs :
        /\ Returned(p)
        /\ Len(proc[p].result.attempts) = 4
        /\ proc[p].result.attempts[2].error # None

\* The number of attempts a resolution makes when no tier accepts and the
\* emergency tier is not used: the primary engine, every registered
\* fallback, and the retry unless the requested level is already A.
TiersBeforeEmergency(p) ==
    LET cfg == OCR_ENGINE_CONFIG(settings)[proc[p].block_type] IN
    1 + Cardinality({k \in 1 .. Len(cfg.fallback) : cfg.fallback[k] \in engines})
      + (IF proc[p].quality_level # "A" THEN 1 ELSE 0)

C5_SuccessfulIsCompilable ==
    \A p \in Procs :
        (Returned(p) /\ proc[p].block_type = "formula"
                     /\ proc[p].result.is_successful)
            => proc[p].result.is_compilable

C5_Witness ==
    \E p \in Procs :
        /\ Returned(p)
        /\ proc[p].block_type = "formula"
        /\ proc[p].returned_at = "BEST_EFFORT"
        /\ proc[p].result.is_successful
        /\ \E i \in 1 .. Len(proc[p].attempts) :
              /\ ~proc[p].attempts[i].is_compilable
              /\ proc[p].attempts[i].confidence >= formula_confidence_threshold

\* C6: the returned result is built from one attempt of its list (the last
\* one when a tier accepted): engine_used, confidence and text (the empty
\* string for an attempt without text) are that attempt's.
C6_ResultFromOneAttempt ==
    \A p \in Procs :
        Returned(p) =>
            LET r == proc[p].result
                atts == r.attempts
            IN  \E i \in 1 .. Len(atts) :
                    /\ proc[p].returned_at # "BEST_EFFORT" => i = Len(atts)
                    /\ r.engine_used = atts[i].engine
                    /\ r.confidence = atts[i].confidence
                    /\ r.text = (IF atts[i].result = None THEN << >>
                                                         ELSE atts[i].result)

C6_Witness ==
    \E p \in Procs :
        /\ Returned(p)
        /\ proc[p].returned_at = "FALLBACKS"
        /\ proc[p].result.engine_used
              # OCR_ENGINE_CONFIG(settings)[proc[p].block_type].primary

\* C7: when no attempt of a resolution satisfied its tier's acceptance
\* predicate, the returned result has is_successful = false (text and
\* formula alike) and carries the attempt list and one attempt's text and
\* confidence.
C7_UnacceptedIsUnsuccessful ==
    \A p \in Procs :
        (/\ Returned(p)
         /\ \A i \in 1 .. Len(proc[p].attempts) :
               ~TierPredicate(proc[p].block_type, proc[p].tiers[i],
                              proc[p].attempts[i]))
        => /\ ~proc[p].result.is_successful
           /\ proc[p].result.attempts = proc[p].attempts
           /\ \E i \in 1 .. Len(proc[p].attempts) :
                 proc[p].result.confidence = proc[p].attempts[i].confidence

\* C8: a PRIMARY, FALLBACKS or QUALITY_RETRY return of the formula cascade
\* has a compilable text and a confidence at or above the formula threshold;
\* a primary formula attempt that is not compilable is not accepted,
\* whatever its confidence, and the first registered fallback comes next.
C8_FormulaAcceptance ==
    \A p \in Procs :
        LET f == proc[p]
            cfg == OCR_ENGINE_CONFIG(settings).formula
        IN  f.block_type = "formula" =>
            /\ (Returned(p) /\ f.returned_at \in {"PRIMARY", "FALLBACKS", "QUALITY_RETRY"})
                  => /\ IsCompilableText(Last(f.attempts).result)
                     /\ Last(f.attempts).confidence >= formula_confidence_threshold
            /\ (Len(f.attempts) >= 1 /\ ~IsCompilableText(f.attempts[1].result))
                  => /\ f.returned_at # "PRIMARY"
                     /\ \A k \in 1 .. Len(cfg.fallback) :
                           (/\ cfg.fallback[k] \in engines
                            /\ \A j \in 1 .. (k - 1) : cfg.fallback[j] \notin engines)
                           => \/ (f.pc = "await" /\ Len(f.attempts) = 1
                                    /\ f.tier = "FALLBACKS"
                                    /\ f.pending.engine = cfg.fallback[k])
                              \/ (Len(f.attempts) >= 2
                                    /\ f.tiers[2] = "FALLBACKS"
                                    /\ f.attempts[2].engine = cfg.fallback[k])

\* Scenario B: unbalanced braces at confidence 0.9, then the fallback.
C8_Witness ==
    \E p \in Procs :
        /\ proc[p].block_type = "formula"
        /\ Len(proc[p].attempts) >= 2
        /\ proc[p].attempts[1].result = <<"{", "x">>
        /\ proc[p].attempts[1].confidence = 90
        /\ proc[p].tiers[2] = "FALLBACKS"

\* C9: a QUALITY_RETRY attempt exists only when the requested level is not
\* A and no earlier attempt was accepted; it is one attempt of the primary
\* engine at level A; no attempts list has two attempts of the primary
\* engine at level A.
C9_QualityRetry ==
    \A p \in Procs :
        LET f == proc[p]
            primary == OCR_ENGINE_CONFIG(settings)[f.block_type].primary
        IN  /\ \A i \in 1 .. Len(f.attempts) :
                  f.tiers[i] = "QUALITY_RETRY" =>
                      /\ f.quality_level # "A"
                      /\ f.attempts[i].engine = primary
                      /\ f.attempts[i].image_quality = "A"
                      /\ \A j \in 1 .. (i - 1) :
                            /\ f.tiers[j] # "QUALITY_RETRY"
                            /\ ~TierPredicate(f.block_type, f.tiers[j], f.attempts[j])
            /\ Cardinality({i \in 1 .. Len(f.attempts) :
                               /\ f.attempts[i].engine = primary
                               /\ f.attempts[i].image_quality = "A"}) <= 1

\* Scenario D: level A requested, nothing accepted, no retry made.
C9_Witness ==
    \E p \in Procs :
        /\ Returned(p)
        /\ proc[p].quality_level = "A"
        /\ proc[p].returned_at = "BEST_EFFORT"
        /\ engines # {}
        /\ \A i \in 1 .. Len(proc[p].attempts) : proc[p].tiers[i] # "QUALITY_RETRY"

\* An emergency attempt of p is in flight.
InEmergencyCall(p) == proc[p].pc = "await" /\ proc[p].tier = "EMERGENCY"

EmergencyGuardHeld(p) ==
    LET f == proc[p]
        emergency == OCR_ENGINE_CONFIG(settings)[f.block_type].emergency
    IN  /\ f.block_type = "formula"
        /\ emergency # NoEngine
        /\ emergency \in engines
        /\ \A j \in 1 .. Len(f.attempts) :
              /\ f.tiers[j] # "EMERGENCY"
              /\ ~TierPredicate(f.block_type, f.tiers[j], f.attempts[j])

\* C10: an emergency attempt is made only in a formula resolution in which
\* no earlier attempt was accepted, with an emergency engine configured and
\* registered and the daily usage below the limit; with the quota exhausted
\* no step starts an emergency call or changes the emergency counters
\* (other than the operator's reset).
C10_EmergencyGuard ==
    /\ [](\A p \in Procs :
            /\ InEmergencyCall(p) =>
                  /\ EmergencyGuardHeld(p)
                  /\ usage_stats.mathpix_daily_usage < mathpix_daily_limit
            /\ \A i \in 1 .. Len(proc[p].attempts) :
                  proc[p].tiers[i] = "EMERGENCY" =>
                      /\ i = Len(proc[p].attempts)
                      /\ proc[p].attempts[i].engine = "mathpix"
                      /\ "mathpix" \in engines
                      /\ proc[p].block_type = "formula")
    /\ [][usage_stats.mathpix_daily_usage >= mathpix_daily_limit =>
            /\ emergency_calls' = emergency_calls
            /\ usage_stats'.emergency_usage = usage_stats.emergency_usage
            /\ usage_stats'.mathpix_daily_usage \in {usage_stats.mathpix_daily_usage, 0}
            /\ \A p \in Procs :
                  /\ InEmergencyCall(p)' => InEmergencyCall(p)
                  /\ Len(proc'[p].attempts) > 0 =>
                        (Last(proc'[p].tiers) = "EMERGENCY" =>
                            proc'[p].attempts = proc[p].attempts)]_vars

\* Quota exhausted: a formula resolution with the emergency engine
\* registered ends in best effort without an emergency attempt.
C10_Witness ==
    \E p \in Procs :
        /\ Returned(p)
        /\ proc[p].block_type = "formula"
        /\ proc[p].returned_at = "BEST_EFFORT"
        /\ "mathpix" \in engines
        /\ usage_stats.mathpix_daily_usage >= mathpix_daily_limit
        /\ usage_stats.emergency_usage = DailyLimit
        /\ \A i \in 1 .. Len(proc[p].attempts) : proc[p].tiers[i] # "EMERGENCY"

\* p's step appended an attempt of the emergency tier.
EmergencyAttemptAppended(p) ==
    /\ Len(proc'[p].tiers) = Len(proc[p].tiers) + 1
    /\ Last(proc'[p].tiers) = "EMERGENCY"

\* C11: the step that records an emergency-tier attempt (accepted, rejected
\* or failed) increases the daily usage counter and the emergency-usage
\* counter by exactly one each, and it is the step in which the resolution
\* returns.
C11_EmergencyCounted ==
    [][\A p \in Procs :
          EmergencyAttemptAppended(p) =>
              /\ usage_stats'.mathpix_daily_usage
                    = usage_stats.mathpix_daily_usage + 1
              /\ usage_stats'.emergency_usage = usage_stats.emergency_usage + 1
              /\ proc'[p].pc = "done"]_vars

\* A failed emergency call, counted.
C11_Witness ==
    \E p \in Procs :
        /\ Returned(p)
        /\ Last(proc[p].tiers) = "EMERGENCY"
        /\ Last(proc[p].attempts).error = <<"adapter error">>
        /\ usage_stats.mathpix_daily_usage = 1
        /\ usage_stats.emergency_usage = 1

\* The attempts best effort chooses among: the flagged ones when there are
\* any (formula), otherwise all.
Candidates(bt, atts) ==
    LET flagged == {i \in 1 .. Len(atts) : atts[i].is_compilable} IN
    IF bt = "formula" /\ flagged # {} THEN flagged ELSE 1 .. Len(atts)

\* The result r is built from attempt a with success flags s.
BuiltFrom(r, a, s) ==
    /\ r.confidence = a.confidence
    /\ r.engine_used = a.engine
    /\ r.text = (IF a.result = None THEN << >> ELSE a.result)
    /\ r.is_successful = s
    /\ r.is_compilable = s

\* C12: a formula resolution in which no tier accepted returns the
\* maximum-confidence attempt among those flagged compilable, or among all
\* attempts when none is flagged, and is_successful and is_compilable are
\* that attempt's flag.
C12_FormulaBestEffort ==
    \A p \in Procs :
        (Returned(p) /\ proc[p].block_type = "formula"
                     /\ proc[p].returned_at = "BEST_EFFORT") =>
            LET atts == proc[p].attempts
                cand == Candidates("formula", atts)
            IN  \E i \in cand :
                    /\ \A j \in cand : atts[j].confidence <= atts[i].confidence
                    /\ BuiltFrom(proc[p].result, atts[i], atts[i].is_compilable)

\* A flagged attempt wins over an unflagged one of higher confidence.
C12_Witness ==
    \E p \in Procs :
        /\ Returned(p)
        /\ proc[p].block_type = "formula"
        /\ proc[p].returned_at = "BEST_EFFORT"
        /\ proc[p].result.is_compilable
        /\ \E i \in 1 .. Len(proc[p].attempts) :
              proc[p].attempts[i].confidence > proc[p].result.confidence

\* C13: a text resolution in which no tier accepted returns the attempt of
\* maximum confidence over all its attempts, with is_successful = false and
\* that attempt's text (the empty string when it has none).
C13_TextBestEffort ==
    \A p \in Procs :
        (Returned(p) /\ proc[p].block_type = "text"
                     /\ proc[p].returned_at = "BEST_EFFORT") =>
            LET atts == proc[p].attempts IN
            \E i \in 1 .. Len(atts) :
                /\ \A j \in 1 .. Len(atts) : atts[j].confidence <= atts[i].confidence
                /\ BuiltFrom(proc[p].result, atts[i], FALSE)

\* The best attempt is not the last one, and a failed attempt took part.
C13_Witness ==
    \E p \in Procs :
        /\ Returned(p)
        /\ proc[p].block_type = "text"
        /\ proc[p].returned_at = "BEST_EFFORT"
        /\ proc[p].result.confidence > Last(proc[p].attempts).confidence
        /\ \E i \in 1 .. Len(proc[p].attempts) : proc[p].attempts[i].error # None

InRegistry(e) == e \in engines

\* The engines a text resolution attempts when every attempt is rejected.
ExpectedTextEngines(q) ==
    LET cfg == OCR_ENGINE_CONFIG(settings).text IN
    <<cfg.primary>> \o SelectSeq(cfg.fallback, InRegistry)
                    \o (IF q # "A" THEN <<cfg.primary>> ELSE << >>)

\* C14: the attempts of a text resolution, with the one in flight, are a
\* prefix of: the primary engine at the requested level, the registered
\* fallbacks in configured order at the same level, the primary engine at
\* level A when the requested level is not A; and every attempt before the
\* most recent one has ended and was rejected.
C14_TextOrder ==
    \A p \in Procs :
        LET f == proc[p]
            made == IF f.pc = "await" THEN Append(f.attempts, f.pending)
                                     ELSE f.attempts
            exp == ExpectedTextEngines(f.quality_level)
        IN  (f.block_type = "text" /\ f.pc # "idle") =>
            /\ Len(made) >= 1
            /\ Len(made) <= Len(exp)
            /\ \A i \in 1 .. Len(made) :
                  /\ made[i].engine = exp[i]
                  /\ made[i].image_quality =
                        (IF i = Len(exp) /\ f.quality_level # "A"
                         THEN "A" ELSE f.quality_level)
                  /\ i < Len(made) =>
                        /\ made[i].end_time
                        /\ made[i].confidence < text_confidence_threshold

\* tesseract is configured but not registered: doctr is the second attempt.
C14_Witness ==
    \E p \in Procs :
        /\ proc[p].block_type = "text"
        /\ "tesseract" \notin engines
        /\ Len(proc[p].attempts) = 3
        /\ proc[p].attempts[1].engine = "paddleocr"
        /\ proc[p].attempts[2].engine = "doctr"
        /\ proc[p].attempts[3].image_quality = "A"

\* C15: an emergency-tier attempt is returned as accepted (is_successful,
\* engine_used the emergency engine) exactly when its text is compilable,
\* whatever its confidence.
C15_EmergencyAcceptance ==
    \A p \in Procs :
        \A i \in 1 .. Len(proc[p].attempts) :
            proc[p].tiers[i] = "EMERGENCY" =>
                /\ Returned(p)
                /\ IsCompilableText(proc[p].attempts[i].result)
                      <=> proc[p].returned_at = "EMERGENCY"
                /\ proc[p].returned_at = "EMERGENCY" =>
                      /\ proc[p].result.is_successful
                      /\ proc[p].result.engine_used
                            = OCR_ENGINE_CONFIG(settings).formula.emergency
                      /\ proc[p].result.text = proc[p].attempts[i].result
                      /\ proc[p].result.confidence = proc[p].attempts[i].confidence

\* Accepted below the formula threshold.
C15_Witness ==
    \E p \in Procs :
        /\ Returned(p)
        /\ proc[p].returned_at = "EMERGENCY"
        /\ proc[p].result.confidence < formula_confidence_threshold
        /\ proc[p].result.is_successful

\* C16: the validation answers true exactly for a text that is not empty
\* or whitespace-only, has as many "{" as "}" and contains none of
\* < > & % #; nothing else is tested.
C16_ValidateLatex ==
    \A k \in 1 .. Len(validation.answers) :
        validation.answers[k] <=> IsCompilableText(validation.text)

\* Balanced in number, wrong in order: reported compilable.
C16_Witness ==
    /\ validation.text = <<"}", "{">>
    /\ Len(validation.answers) >= 1
    /\ validation.answers[1]

TextEngines == {"paddleocr", "tesseract", "doctr"}

FormulaEngines == {"pix2tex", "trocr", "mathpix"}

\* C18: when initialize has returned, each modality has a registered
\* adapter (otherwise a configuration error was raised at startup).
C18_StartupConfigError ==
    init_state = "ready" =>
        /\ engines \cap TextEngines # {}
        /\ engines \cap FormulaEngines # {}

\* C19: an attempt on an unregistered engine and an attempt whose adapter
\* raised are in the list with confidence 0, no text, an error and the end
\* timestamp set; an attempt keeps the engine, number and level it was
\* started with.
C19_FailedAttempt ==
    /\ [](\A p \in Procs :
            \A i \in 1 .. Len(proc[p].attempts) :
                LET a == proc[p].attempts[i] IN
                /\ a.error \in {None, <<"adapter error">>, <<"engine unavailable">>}
                /\ a.error = <<"engine unavailable">> <=> a.engine \notin engines
                /\ a.error # None =>
                      /\ a.confidence = 0
                      /\ a.result = None
                      /\ a.end_time
                      /\ ~a.is_compilable
                      /\ a.attempt_number = i
                      /\ a.image_quality =
                            (IF proc[p].tiers[i] \in {"PRIMARY", "FALLBACKS"}
                             THEN proc[p].quality_level ELSE "A"))
    /\ [][\A p \in Procs :
            (proc[p].pc = "await"
                /\ Len(proc'[p].attempts) > Len(proc[p].attempts)) =>
                LET a == proc'[p].attempts[Len(proc[p].attempts) + 1] IN
                /\ a.engine = proc[p].pending.engine
                /\ a.attempt_number = proc[p].pending.attempt_number
                /\ a.image_quality = proc[p].pending.image_quality]_vars

\* The adapter whose initialize() failed raises when called; the retry of
\* an unregistered primary engine is in the same behaviour space.
C19_Witness ==
    \E p \in Procs :
        /\ Returned(p)
        /\ \E i \in 1 .. Len(proc[p].attempts) :
              /\ proc[p].attempts[i].error = <<"adapter error">>
              /\ proc[p].attempts[i].engine \in uninitialized
        /\ Len(proc[p].attempts) >= 2

\* C20: an adapter whose initialize() fails does not make
\* OCREngineManager.initialize raise, is absent from the mapping afterwards,
\* and every other enabled engine is registered.
C20_InitFailureNonFatal ==
    /\ init_state # "raised"
    /\ engines \cap uninitialized = {}
    /\ init_state = "ready" => engines = RegisteredBy(settings) \ uninitialized

\* C21: an attempt in the list is the attempt as _attempt_ocr sealed it: the
\* step that appends the attempt of the awaited call stores the pending
\* attempt with the adapter's outcome and nothing else changed, and no later
\* step of the resolution changes an attempt of the list.
C21_SealedImmutable ==
    [][\A p \in Procs :
          LET n == Len(proc[p].attempts) IN
          /\ proc'[p].pc # "idle" =>
                /\ Len(proc'[p].attempts) >= n
                /\ \A i \in 1 .. n : proc'[p].attempts[i] = proc[p].attempts[i]
          /\ (proc[p].pc = "await" /\ Len(proc'[p].attempts) > n) =>
                \E o \in Outcomes(proc[p].block_type) :
                    proc'[p].attempts[n + 1] = Seal(proc[p].pending, o)]_vars

\* Resolutions that have returned: started and not suspended in a call.
Completed == started - Cardinality({p \in Procs : proc[p].pc = "await"})

\* C22: the total-requests counter equals the number of completed
\* resolutions, and the successful-requests counter is positive once a
\* resolution has returned a successful result.
C22_RequestsRecorded ==
    /\ usage_stats.total_requests = Completed
    /\ \A p \in Procs :
          (Returned(p) /\ proc[p].result.is_successful) =>
              usage_stats.successful_requests >= 1

\* HIGH >= 0.9, MEDIUM [0.7, 0.9), LOW < 0.7
ConfidenceLevelOf(c) ==
    IF c >= 90 THEN "high" ELSE IF c >= 70 THEN "medium" ELSE "low"

\* C23: the confidence level of a returned result is the level of its
\* confidence.
C23_ConfidenceLevel ==
    \A p \in Procs :
        Returned(p) =>
            proc[p].result.confidence_level
                = ConfidenceLevelOf(proc[p].result.confidence)

\* The step in which p's resolution returns.
Returns(p) == proc[p].pc # "done" /\ proc'[p].pc = "done"

\* C24: a step adds one to the fallback-usage counter when it returns a
\* resolution accepted at the FALLBACKS tier and leaves the counter alone
\* otherwise (acceptance at another tier, best effort, any other step).
C24_FallbackCounted ==
    [][usage_stats'.fallback_usage =
          usage_stats.fallback_usage
            + Cardinality({p \in Procs :
                              Returns(p) /\ proc'[p].returned_at = "FALLBACKS"})]_vars

\* One resolution was accepted at a fallback; the next one ended in best
\* effort with a fallback engine's attempt and did not count.
C24_Witness ==
    \E p \in Procs :
        /\ Returned(p)
        /\ proc[p].returned_at = "BEST_EFFORT"
        /\ proc[p].result.engine_used
              \in {"tesseract", "doctr", "trocr"}
                    \ {OCR_ENGINE_CONFIG(settings)[proc[p].block_type].primary}
        /\ started = 2
        /\ usage_stats.fallback_usage = 1

\* C25: in a returned formula resolution the flag of every attempt equals
\* the compilability of its text (false without text), whatever the
\* confidence.
C25_FlagsComputed ==
    \A p \in Procs :
        (Returned(p) /\ proc[p].block_type = "formula") =>
            \A i \in 1 .. Len(proc[p].attempts) :
                proc[p].attempts[i].is_compilable
                    <=> IsCompilableText(proc[p].attempts[i].result)

\* A compilable attempt below the threshold is flagged, next to an attempt
\* without text and an attempt with unbalanced text.
C25_Witness ==
    \E p \in Procs :
        /\ Returned(p)
        /\ proc[p].block_type = "formula"
        /\ Len(proc[p].attempts) = 3
        /\ proc[p].attempts[1].is_compilable
        /\ proc[p].attempts[1].confidence < formula_confidence_threshold
        /\ proc[p].attempts[2].result = None
        /\ proc[p].attempts[3].result = <<"{", "x">>

TierRank(t) ==
    CASE t = "PRIMARY" -> 1
      [] t = "FALLBACKS" -> 2
      [] t = "QUALITY_RETRY" -> 3
      [] t = "EMERGENCY" -> 4

\* C26: a resolution is only ever suspended in an adapter call (it never
\* waits for quota), its attempts never go back to an earlier tier, and,
\* every adapter call ending, a started resolution returns a result.
C26_Terminates ==
    /\ [](\A p \in Procs :
            /\ proc[p].pc \in {"idle", "await", "done"}
            /\ \A i, j \in 1 .. Len(proc[p].tiers) :
                  i < j => TierRank(proc[p].tiers[i]) <= TierRank(proc[p].tiers[j])
            /\ proc[p].pc = "await" =>
                  \A i \in 1 .. Len(proc[p].tiers) :
                      TierRank(proc[p].tiers[i]) <= TierRank(proc[p].tier))
    /\ \A p \in Procs : (proc[p].pc = "await") ~> Returned(p)

\* Quota used up, emergency engine registered: the resolution returned
\* after a failed first call and two more attempts, without waiting.
C26_Witness ==
    \E p \in Procs :
        /\ Returned(p)
        /\ proc[p].block_type = "formula"
        /\ "mathpix" \in engines
        /\ usage_stats.mathpix_daily_usage >= mathpix_daily_limit
        /\ proc[p].returned_at = "BEST_EFFORT"
        /\ Len(proc[p].attempts) = 3
        /\ proc[p].attempts[1].error = <<"adapter error">>

\* The attempts of p so far, with the one in flight.
Made(p) ==
    IF proc[p].pc = "await" THEN Append(proc[p].attempts, proc[p].pending)
                            ELSE proc[p].attempts

TimesAttempted(p, e) ==
    Cardinality({i \in 1 .. Len(Made(p)) : Made(p)[i].engine = e})

\* C27: a text resolution makes at most 2 + F attempts and a formula
\* resolution at most 3 + F, F the number of configured fallbacks; the
\* primary engine is attempted at most twice, any other engine at most once.
C27_AttemptsBounded ==
    \A p \in Procs :
        LET cfg == OCR_ENGINE_CONFIG(settings)[proc[p].block_type] IN
        /\ Len(Made(p)) <= (IF proc[p].block_type = "text" THEN 2 ELSE 3)
                              + Len(cfg.fallback)
        /\ TimesAttempted(p, cfg.primary) <= 2
        /\ \A k \in 1 .. Len(InitOrder) :
              InitOrder[k] # cfg.primary => TimesAttempted(p, InitOrder[k]) <= 1

\* The longest formula resolution: primary, fallback, retry, emergency.
C27_Witness ==
    \E p \in Procs :
        /\ Returned(p)
        /\ proc[p].block_type = "formula"
        /\ Len(proc[p].attempts) = 4
        /\ TimesAttempted(p, "pix2tex") = 2
        /\ TimesAttempted(p, "trocr") = 1
        /\ TimesAttempted(p, "mathpix") = 1

\* p's step left the first three tiers of a formula resolution with the
\* emergency engine configured and registered, without an accepted attempt.
EntersEmergencyCall(p) == ~InEmergencyCall(p) /\ InEmergencyCall(p)'

SkipsEmergency(p) ==
    /\ Returns(p)
    /\ proc'[p].block_type = "formula"
    /\ proc'[p].returned_at = "BEST_EFFORT"
    /\ \A i \in 1 .. Len(proc'[p].tiers) : proc'[p].tiers[i] # "EMERGENCY"
    /\ OCR_ENGINE_CONFIG(settings).formula.emergency \in engines

\* C28: a formula resolution that fails the earlier tiers calls the
\* registered emergency engine exactly when the daily usage is below the
\* limit; the operator's reset sets the daily usage to zero and changes
\* nothing else, and only the reset lowers it.
C28_QuotaGate ==
    /\ [][\A p \in Procs :
            /\ EntersEmergencyCall(p) =>
                  usage_stats.mathpix_daily_usage < mathpix_daily_limit
            /\ SkipsEmergency(p) =>
                  usage_stats.mathpix_daily_usage >= mathpix_daily_limit]_vars
    /\ [][(reset_done' # reset_done
             \/ usage_stats'.mathpix_daily_usage < usage_stats.mathpix_daily_usage) =>
            /\ usage_stats' = [usage_stats EXCEPT !.mathpix_daily_usage = 0]
            /\ UNCHANGED <<engines, proc, emergency_calls>>]_vars

\* The limit was used up, the quota was reset, and a later resolution is in
\* an emergency call again.
C28_Witness ==
    \E p \in Procs :
        /\ InEmergencyCall(p)
        /\ reset_done
        /\ usage_stats.mathpix_daily_usage = 0
        /\ usage_stats.emergency_usage >= mathpix_daily_limit
        /\ mathpix_daily_limit > 0

\* C29: once lifespan has completed startup, the manager the request
\* handlers use has every enabled engine registered.
C29_HandlersManagerReady ==
    lifespan_manager.state = "up" => engines = RegisteredBy(settings)

\* C30: a successful formula result whose engine is not the emergency
\* engine has a confidence of at least formula_confidence_threshold.
C30_SuccessAboveThreshold ==
    \A p \in Procs :
        (/\ Returned(p)
         /\ proc[p].block_type = "formula"
         /\ proc[p].result.is_successful
         /\ proc[p].result.engine_used
               # OCR_ENGINE_CONFIG(settings).formula.emergency) =>
            proc[p].result.confidence >= formula_confidence_threshold

\* C31: a result of process_text_block is successful exactly when its
\* confidence is at least text_confidence_threshold.
C31_TextSuccessIffThreshold ==
    \A p \in Procs :
        (Returned(p) /\ proc[p].block_type = "text") =>
            (proc[p].result.is_successful
                <=> proc[p].result.confidence >= text_confidence_threshold)

\* Best effort just below the threshold: unsuccessful.
C31_Witness ==
    \E p \in Procs :
        /\ Returned(p)
        /\ proc[p].block_type = "text"
        /\ proc[p].returned_at = "BEST_EFFORT"
        /\ proc[p].result.confidence = 70
        /\ ~proc[p].result.is_successful

\* C32: with resolutions one at a time the daily usage never exceeds the
\* daily limit and get_stats never reports a negative mathpix_remaining,
\* whatever the resolutions and resets.
C32_SequentialQuota ==
    /\ usage_stats.mathpix_daily_usage <= mathpix_daily_limit
    /\ get_stats.mathpix_remaining >= 0
    /\ get_stats.mathpix_daily_usage = usage_stats.mathpix_daily_usage

\* The limit used up, reset, and used up again.
C32_Witness ==
    /\ get_stats.mathpix_remaining = 0
    /\ reset_done
    /\ emergency_calls > mathpix_daily_limit
    /\ \E p \in Procs : Returned(p) /\ Last(proc[p].tiers) = "EMERGENCY"

\* C33: for every combination of the flags, no resolution records (or has
\* in flight) two attempts with the same engine and the same quality level.
C33_NoRepeatedAttempt ==
    \A p \in Procs :
        \A i, j \in 1 .. Len(Made(p)) :
            (i # j /\ Made(p)[i].engine = Made(p)[j].engine) =>
                Made(p)[i].image_quality # Made(p)[j].image_quality

\* tesseract is primary (paddleocr disabled) and is attempted twice, at the
\* requested level and at A, around the fallback doctr.
C33_Witness ==
    \E p \in Procs :
        /\ Returned(p)
        /\ ~settings.paddleocr_enabled
        /\ Len(proc[p].attempts) = 3
        /\ proc[p].attempts[1].engine = "tesseract"
        /\ proc[p].attempts[2].engine = "doctr"
        /\ proc[p].attempts[3].engine = "tesseract"
        /\ proc[p].attempts[1].image_quality = "C"

\* The candidate of lowest number among those of maximum confidence.
FirstBest(bt, atts) ==
    LET cand == Candidates(bt, atts) IN
    CHOOSE i \in cand :
        /\ \A j \in cand : atts[j].confidence <= atts[i].confidence
        /\ \A j \in cand : j < i => atts[j].confidence < atts[i].confidence

\* C34: a best-effort result is built from the candidate of lowest number
\* among the candidates of maximum confidence.
C34_FirstOfTies ==
    \A p \in Procs :
        (Returned(p) /\ proc[p].returned_at = "BEST_EFFORT") =>
            LET atts == proc[p].attempts
                a == atts[FirstBest(proc[p].block_type, atts)]
            IN  /\ proc[p].result.engine_used = a.engine
                /\ proc[p].result.confidence = a.confidence
                /\ proc[p].result.text = (IF a.result = None THEN << >> ELSE a.result)

\* Two attempts of different engines tie; the earlier one is returned.
C34_Witness ==
    \E p \in Procs :
        /\ Returned(p)
        /\ proc[p].returned_at = "BEST_EFFORT"
        /\ Len(proc[p].attempts) >= 2
        /\ proc[p].attempts[1].confidence = proc[p].attempts[2].confidence
        /\ proc[p].attempts[1].confidence > 0
        /\ proc[p].attempts[1].is_compilable = proc[p].attempts[2].is_compilable
        /\ proc[p].attempts[1].engine # proc[p].attempts[2].engine
        /\ proc[p].result.confidence = proc[p].attempts[1].confidence
        /\ proc[p].result.engine_used = proc[p].attempts[1].engine

\* C35: with no emergency call in flight and no reset made, the daily usage,
\* the emergency-usage counter and the number of emergency calls made are
\* equal, also for interleaved resolutions.
C35_NoLostIncrement ==
    ((\A p \in Procs : ~InEmergencyCall(p)) /\ ~reset_done) =>
        /\ usage_stats.mathpix_daily_usage = usage_stats.emergency_usage
        /\ usage_stats.emergency_usage = emergency_calls

\* Two interleaved resolutions both made their emergency call.
C35_Witness ==
    /\ \A p \in Procs : Returned(p) /\ Last(proc[p].tiers) = "EMERGENCY"
    /\ ~reset_done
    /\ emergency_calls = 2
    /\ usage_stats.mathpix_daily_usage = 2

\* C36: the attempts of the PRIMARY and FALLBACKS tiers carry the requested
\* quality level, those of QUALITY_RETRY and EMERGENCY carry A.
C36_QualityOfTier ==
    \A p \in Procs :
        /\ \A i \in 1 .. Len(proc[p].attempts) :
              proc[p].attempts[i].image_quality =
                  (IF proc[p].tiers[i] \in {"PRIMARY", "FALLBACKS"}
                   THEN proc[p].quality_level ELSE "A")
        /\ proc[p].pc = "await" =>
              proc[p].pending.image_quality =
                  (IF proc[p].tier \in {"PRIMARY", "FALLBACKS"}
                   THEN proc[p].quality_level ELSE "A")

\* Requested level C: primary and fallback at C, retry and emergency at A.
C36_Witness ==
    \E p \in Procs :
        /\ Returned(p)
        /\ proc[p].quality_level = "C"
        /\ Len(proc[p].attempts) = 4
        /\ proc[p].attempts[2].image_quality = "C"
        /\ proc[p].attempts[3].image_quality = "A"
        /\ proc[p].tiers[4] = "EMERGENCY"
        /\ proc[p].attempts[4].image_quality = "A"

====
